---- MODULE Spec2Model ----
(***************************************************************************)
(* jsondoc (cmd/jsondoc/main.go): the type-resolution and rendering engine *)
(* of one document-generation run, as a state machine.                     *)
(*                                                                         *)
(* Strings are sequences of tokens (a token is a run of characters that    *)
(* the code never splits); the empty sequence is Go's "".  AST nodes carry *)
(* an id that stands for their address: ast.Expr map keys and *ast.Object  *)
(* compare by identity.                                                    *)
(***************************************************************************)
EXTENDS Integers, Sequences, FiniteSets, TLC

\* ------------------------------------------------------------------ bounds

\* Directives (title, import, input, output) evaluated in one run.
MaxDirectives == 3
\* Depth of nested appendFields calls at which the goroutine stack is exhausted.
MaxStack == 4
\* Length of the render queue beyond which the drain loop is not followed.
MaxQueue == 12

\* ----------------------------------------------------------------- strings

Q == "\""
SP == " "
DOT == "."
Empty == <<>>

\* Binds the value v of a call to the parameter of F, so that a result used
\* in several places is computed once.
With(v, F(_)) == CHOOSE r \in {F(y) : y \in {v}} : TRUE
\* The token of the back quote character, which delimits a raw string literal.
BQ == "[bq]"

RECURSIVE MapTokens(_, _)
\* Helper: the concatenation of f[token] over the tokens of s.
MapTokens(s, f) ==
  IF s = <<>> THEN <<>>
  ELSE (IF Head(s) \in DOMAIN f THEN f[Head(s)] ELSE <<Head(s)>>) \o MapTokens(Tail(s), f)

\* strings.Replace(name, " ", "-", -1)
ReplaceSpaces(s) == MapTokens(s, (SP :> <<"-">>))

\* html.EscapeString: escapes < > & ' "
EscapeString(s) ==
  MapTokens(s, (Q :> <<"&#34;">>) @@ ("<" :> <<"&lt;">>) @@ (">" :> <<"&gt;">>)
               @@ ("&" :> <<"&amp;">>) @@ ("'" :> <<"&#39;">>))

\* The punctuation tokens of isASCIIPunctuation that occur in the model's names.
Punctuation == {DOT, Q, "-", ",", ":", "(", ")", "*", BQ, "<", ">", "&", "'", "/", "_"}

\* markdownEscapeString: a backslash before every ASCII punctuation character.
markdownEscapeString(s) ==
  MapTokens(s, [p \in Punctuation |-> <<"\\", p>>])

\* strconv.Quote for the tokens of the model: quotes around, " and \ escaped.
Quote(s) == <<Q>> \o MapTokens(s, (Q :> <<"\\", Q>>) @@ ("\\" :> <<"\\", "\\">>)) \o <<Q>>

Digits == <<"0", "1", "2", "3", "4", "5", "6", "7", "8", "9">>

RECURSIVE Itoa(_)
\* The %d verb of fmt.Sprintf for a non-negative int.
Itoa(i) == IF i < 10 THEN <<Digits[i + 1]>> ELSE Itoa(i \div 10) \o <<Digits[(i % 10) + 1]>>

\* strings.HasSuffix
HasSuffix(s, suf) ==
  Len(s) >= Len(suf) /\ SubSeq(s, Len(s) - Len(suf) + 1, Len(s)) = suf

\* strings.LastIndexByte(s, c), 1-based; 0 stands for -1.
LastIndexByte(s, c) ==
  IF \E i \in 1..Len(s) : s[i] = c
  THEN CHOOSE i \in 1..Len(s) : s[i] = c /\ \A j \in (i + 1)..Len(s) : s[j] # c
  ELSE 0

\* Index of the first token of s at or after position from that is in set cs; 0 if none.
IndexAny(s, from, cs) ==
  IF \E i \in from..Len(s) : s[i] \in cs
  THEN CHOOSE i \in from..Len(s) : s[i] \in cs /\ \A j \in from..(i - 1) : s[j] \notin cs
  ELSE 0

RECURSIVE Split(_, _)
\* strings.Split(s, sep) for a one-character separator.
Split(s, sep) ==
  With(IndexAny(s, 1, {sep}), LAMBDA i :
    IF i = 0 THEN <<s>>
    ELSE <<SubSeq(s, 1, i - 1)>> \o Split(SubSeq(s, i + 1, Len(s)), sep))

\* Go map read: the zero value for an absent key.
Get(m, key, zero) == IF key \in DOMAIN m THEN m[key] ELSE zero

\* Go map write m[key] = v.
Put(m, key, v) == (key :> v) @@ m

EmptyMap == [x \in {} |-> 0]

\* -------------------------------------------------------------- AST values

\* A nil ast.Expr, a nil *ast.Object and a nil *context.
Nil == [k |-> "nil", id |-> 0]
NilObj == [Path |-> <<>>, Name |-> <<>>]
NilCtx == [Path |-> <<>>, File |-> ""]

\* *ast.Ident: a bare identifier.
Ident(n) == [k |-> "ident", id |-> 0, Name |-> <<n>>]
\* *ast.Ident standing as the whole type of a declaration (type Num int).
IdentAt(id, n) == [k |-> "ident", id |-> id, Name |-> <<n>>]
\* *ast.StructType with its Fields.List.
Struct(id, fields) == [k |-> "struct", id |-> id, List |-> fields]
\* *ast.ArrayType
Array(id, elt) == [k |-> "array", id |-> id, Elt |-> elt]
\* *ast.MapType
MapT(id, key, value) == [k |-> "map", id |-> id, Key |-> key, Value |-> value]
\* *ast.SelectorExpr X.Sel
Sel(x, sel) == [k |-> "sel", id |-> 0, X |-> x, Sel |-> <<sel>>]
\* *ast.StarExpr *X
Star(x) == [k |-> "star", id |-> 0, X |-> x]

\* *ast.Field: Names (empty for an embedded member), Type, Tag.Value (empty
\* for a nil Tag) and the text of the trailing comment.
Field(names, type, tag, comment) ==
  [Names |-> names, Type |-> type, Tag |-> tag, Comment |-> comment]

\* The raw-string tag literal with the one key json, as the parser stores it in Tag.Value.
JsonTag(v) == <<BQ, "json", ":", Q>> \o v \o <<Q, BQ>>

\* A type declaration and a function declaration in a file scope.
TypeObj(t) == [Kind |-> "type", Type |-> t]
FuncObj == [Kind |-> "func", Type |-> Nil]

\* ------------------------------------------------ the declarations of a run

int == Ident("int")
NoTag == <<>>
NoComment == <<>>
\* A struct with the one field A int.
OneInt(id) == Struct(id, <<Field(<<(<<"A">>)>>, int, NoTag, NoComment)>>)

\* File a.go of the package at path ex (package example).
FileExA ==
  [Path |-> <<"ex">>,
   Imports |-> << [Name |-> <<"bd">>, Path |-> <<Q, "bad", Q>>],
                  [Name |-> <<>>, Path |-> <<Q, "an", Q>>] >>,
   Objects |->
     (<<"S">> :> TypeObj(Struct(1, <<
          Field(<<(<<"A">>)>>, int, JsonTag(<<"a">>), <<SP, "first", SP>>),
          Field(<<(<<"b">>)>>, int, NoTag, NoComment),
          Field(<<(<<"C">>)>>, Ident("string"), JsonTag(<<"-">>), NoComment),
          Field(<<(<<"D">>)>>, int, JsonTag(<<",", "omitempty">>), NoComment),
          Field(<<(<<"E">>)>>, Ident("bool"), JsonTag(<<"e", ",", "omitempty">>), NoComment),
          Field(<<(<<"F">>), (<<"g">>)>>, int, NoTag, NoComment) >>)))
     @@ (<<"H">> :> TypeObj(Struct(2, <<
          Field(<<(<<"b">>)>>, int, NoTag, NoComment),
          Field(<<(<<"C">>)>>, int, JsonTag(<<"-", ",", "omitempty">>), NoComment),
          Field(<<(<<"d">>)>>, int, JsonTag(<<"d">>), NoComment) >>)))
     @@ (<<"E0">> :> TypeObj(Struct(3, <<>>)))
     @@ (<<"HE">> :> TypeObj(Struct(4, <<
          Field(<<>>, Ident("H"), NoTag, NoComment) >>)))
     @@ (<<"T">> :> TypeObj(Struct(5, <<
          Field(<<(<<"X">>)>>, Ident("S"), NoTag, NoComment),
          Field(<<(<<"Y">>)>>, Ident("S"), NoTag, NoComment),
          Field(<<(<<"C">>)>>, OneInt(6), NoTag, NoComment) >>)))
     @@ (<<"U">> :> TypeObj(Struct(7, <<
          Field(<<(<<"C">>)>>, OneInt(8), NoTag, NoComment),
          Field(<<(<<"L">>)>>, Array(0, Ident("V")), NoTag, NoComment) >>)))
     @@ (<<"V">> :> TypeObj(Struct(9, <<
          Field(<<(<<"U">>)>>, Ident("U"), NoTag, NoComment),
          Field(<<(<<"W">>)>>, MapT(0, Ident("string"), Ident("V")), NoTag, NoComment) >>)))
     @@ (<<"MI">> :> TypeObj(MapT(10, Ident("string"),
                                 Array(0, MapT(0, int, Ident("S"))))))
     @@ (<<"MQ">> :> TypeObj(MapT(11, int, Ident("S"))))
     @@ (<<"MF">> :> TypeObj(Struct(12, <<
          Field(<<(<<"K">>)>>, Ident("MQ"), NoTag, NoComment) >>)))
     @@ (<<"MG">> :> TypeObj(Struct(13, <<
          Field(<<(<<"M">>)>>, MapT(0, Ident("string"), Array(0, MapT(0, int, Ident("S")))),
                NoTag, NoComment),
          Field(<<(<<"A">>)>>, int, NoTag, NoComment) >>)))
     @@ (<<"ZF">> :> TypeObj(Struct(14, <<
          Field(<<(<<"Q">>)>>, Ident("Nope"), NoTag, NoComment),
          Field(<<(<<"N">>)>>, Array(0, Ident("Nope")), NoTag, NoComment),
          Field(<<(<<"A">>)>>, int, NoTag, NoComment) >>)))
     @@ (<<"ZE">> :> TypeObj(Struct(15, <<
          Field(<<>>, Ident("Nope"), NoTag, NoComment),
          Field(<<(<<"A">>)>>, int, NoTag, NoComment) >>)))
     @@ (<<"O">> :> TypeObj(Struct(16, <<
          Field(<<(<<"P">>)>>, OneInt(17), JsonTag(<<"p", ",", "omitempty">>), NoComment),
          Field(<<(<<"N">>)>>, int, JsonTag(<<"n", ",", "string">>), <<"count">>) >>)))
     @@ (<<"X">> :> TypeObj(Struct(18, <<
          Field(<<(<<"Q">>)>>, Sel(Ident("another"), "Another"), NoTag, NoComment),
          Field(<<(<<"M">>)>>, Sel(Ident("another"), "Missing"), NoTag, NoComment),
          Field(<<(<<"B">>)>>, Sel(Ident("bd"), "Foo"), NoTag, NoComment),
          Field(<<(<<"Z">>)>>, Sel(Ident("zz"), "Foo"), NoTag, NoComment),
          Field(<<(<<"A">>)>>, int, NoTag, <<"last">>) >>)))
     @@ (<<"XB">> :> TypeObj(Struct(19, <<
          Field(<<(<<"I">>)>>, Sel(Ident("another"), "int"), NoTag, NoComment),
          Field(<<(<<"A">>)>>, int, NoTag, NoComment) >>)))
     @@ (<<"fn">> :> FuncObj),
   Key |-> "exA"]

\* File b.go of the package at path ex.
FileExB ==
  [Path |-> <<"ex">>,
   Imports |-> <<>>,
   Objects |->
     (<<"G">> :> TypeObj(Struct(23, <<
          Field(<<(<<"C">>)>>, OneInt(24), NoTag, NoComment),
          Field(<<(<<"Z">>)>>, int, NoTag, NoComment) >>)))
     @@ (<<"I">> :> TypeObj(Struct(25, <<
          Field(<<(<<"A">>)>>, int, NoTag, NoComment),
          Field(<<>>, Ident("G"), NoTag, NoComment),
          Field(<<(<<"W">>)>>, int, NoTag, NoComment) >>)))
     @@ (<<"R">> :> TypeObj(Struct(26, <<
          Field(<<>>, Ident("I"), NoTag, NoComment),
          Field(<<(<<"X">>)>>, Ident("G"), NoTag, NoComment),
          Field(<<(<<"Y">>)>>, Ident("I"), NoTag, NoComment) >>)))
     @@ (<<"A1">> :> TypeObj(Struct(21, <<
          Field(<<>>, Ident("B1"), NoTag, NoComment) >>)))
     @@ (<<"B1">> :> TypeObj(Struct(22, <<
          Field(<<>>, Ident("A1"), NoTag, NoComment) >>)))
     @@ (<<"Sc">> :> TypeObj(IdentAt(27, "int")))
     @@ (<<"LS">> :> TypeObj(Array(28, Ident("G"))))
     @@ (<<"K">> :> TypeObj(Struct(29, <<
          Field(<<>>, Ident("Sc"), NoTag, NoComment),
          Field(<<>>, Ident("error"), NoTag, NoComment),
          Field(<<>>, Ident("G"), NoTag, NoComment),
          Field(<<(<<"I">>)>>, Ident("Sc"), NoTag, NoComment),
          Field(<<(<<"L">>)>>, Ident("LS"), NoTag, NoComment),
          Field(<<(<<"A">>)>>, int, NoTag, NoComment) >>)))
     @@ (<<"EP">> :> TypeObj(Struct(30, <<
          Field(<<(<<"A">>)>>, int, NoTag, NoComment),
          Field(<<>>, Star(Ident("G")), NoTag, NoComment) >>)))
     @@ (<<"EQ">> :> TypeObj(Struct(31, <<
          Field(<<(<<"A">>)>>, int, NoTag, NoComment),
          Field(<<>>, Sel(Ident("another"), "Another"), NoTag, NoComment) >>))),
   Key |-> "exB"]

\* File a.go of the package at path an (package another).
FileAnA ==
  [Path |-> <<"an">>,
   Imports |-> <<>>,
   Objects |->
     (<<"Another">> :> TypeObj(Struct(40, <<
          Field(<<(<<"A">>)>>, int, NoTag, NoComment),
          Field(<<(<<"Z">>)>>, Ident("T"), NoTag, NoComment),
          Field(<<(<<"E">>)>>, Ident("error"), NoTag, NoComment) >>)))
     @@ (<<"T">> :> TypeObj(OneInt(42)))
     @@ (<<"error">> :> TypeObj(OneInt(43))),
   Key |-> "anA"]

\* The parsed files by key: what parser.ParseDir yields for the directories.
Files == ("exA" :> FileExA) @@ ("exB" :> FileExB) @@ ("anA" :> FileAnA)

\* build.Import and parser.ParseDir: the import paths that resolve, each with
\* the name of its package and the files of its directory.
Source ==
  (<<"ex">> :> [Name |-> <<"example">>, Files |-> {"exA", "exB"}])
  @@ (<<"an">> :> [Name |-> <<"another">>, Files |-> {"anA"}])

\* ------------------------------------------------------- field-name resolver

Upper == {"A", "B", "C", "D", "E", "F", "G", "H", "I", "J", "K", "L", "M",
          "N", "O", "P", "Q", "R", "S", "T", "U", "V", "W", "X", "Y", "Z"}

\* ast.IsExported: the first character of the name is an upper-case letter.
IsExported(name) == name # <<>> /\ name[1] \in Upper

RECURSIVE Unescape(_)
\* The escapes of an interpreted string, for the tokens of the model.
Unescape(s) ==
  IF s = <<>> THEN <<>>
  ELSE IF Head(s) = "\\" /\ Len(s) >= 2 THEN <<s[2]>> \o Unescape(SubSeq(s, 3, Len(s)))
  ELSE <<Head(s)>> \o Unescape(Tail(s))

\* strconv.Unquote of a string literal: a raw literal between back quotes or an
\* interpreted literal between double quotes; anything else is a syntax error.
Unquote(lit) ==
  LET n == Len(lit)
      inner == SubSeq(lit, 2, n - 1)
  IN IF n >= 2 /\ lit[1] = BQ /\ lit[n] = BQ /\ BQ \notin {inner[i] : i \in 1..Len(inner)}
     THEN [ok |-> TRUE, s |-> inner]
     ELSE IF n >= 2 /\ lit[1] = Q /\ lit[n] = Q
     THEN [ok |-> TRUE, s |-> Unescape(inner)]
     ELSE [ok |-> FALSE, s |-> <<>>]

RECURSIVE TrimLeft(_)
\* Leading spaces removed.
TrimLeft(s) == IF s # <<>> /\ Head(s) = SP THEN TrimLeft(Tail(s)) ELSE s

RECURSIVE TrimRight(_)
\* Trailing spaces removed.
TrimRight(s) ==
  IF s # <<>> /\ s[Len(s)] = SP THEN TrimRight(SubSeq(s, 1, Len(s) - 1)) ELSE s

\* strings.TrimSpace
TrimSpace(s) == TrimRight(TrimLeft(s))

RECURSIVE ClosingQuote(_, _)
\* Position of the double quote that closes a quoted value starting at i; 0 if none.
ClosingQuote(t, i) ==
  IF i > Len(t) THEN 0
  ELSE IF t[i] = Q THEN i
  ELSE IF t[i] = "\\" THEN ClosingQuote(t, i + 2)
  ELSE ClosingQuote(t, i + 1)

RECURSIVE StructTagGet(_, _)
\* reflect.StructTag.Get: the value of key in a tag of space-separated
\* name:"value" pairs; the empty string for an absent key or a malformed tag.
StructTagGet(tag, key) ==
  LET t == TrimLeft(tag)
      i == IndexAny(t, 1, {SP, ":", Q})
  IN IF t = <<>> THEN <<>>
     ELSE IF i <= 1 \/ i + 1 > Len(t) THEN <<>>
     ELSE IF t[i] # ":" \/ t[i + 1] # Q THEN <<>>
     ELSE LET j == ClosingQuote(t, i + 2)
          IN IF j = 0 THEN <<>>
             ELSE IF SubSeq(t, 1, i - 1) = key THEN Unescape(SubSeq(t, i + 2, j - 1))
             ELSE StructTagGet(SubSeq(t, j + 1, Len(t)), key)

\* The suffix of tagToName: the options after the first component list omitempty.
OptionalSuffix(fields) ==
  IF \E k \in 2..Len(fields) : fields[k] = <<"omitempty">> THEN <<SP, "(optional)">> ELSE <<>>

\* A tagToName that does not read the tag.
tagToNameUntagged(name, tag) ==
  IF ~IsExported(name) THEN [name |-> <<>>, err |-> "NotExported"]
  ELSE [name |-> Quote(name), err |-> ""]

\* tagToName: the display name of a member, or the error NotExported for a
\* suppressed member, or the syntax error of strconv.Unquote.
tagToName(name, tag) ==
  IF ~IsExported(name) THEN [name |-> <<>>, err |-> "NotExported"]
  ELSE IF tag = <<>> THEN [name |-> Quote(name), err |-> ""]
  ELSE With(Unquote(tag), LAMBDA u :
         IF ~u.ok THEN [name |-> <<>>, err |-> "invalid syntax"]
         ELSE With(StructTagGet(u.s, <<"json">>), LAMBDA s :
                IF s = <<>> THEN [name |-> Quote(name), err |-> ""]
                ELSE With(Split(s, ","), LAMBDA fields :
                       IF fields[1] = <<"-">> THEN [name |-> <<>>, err |-> "NotExported"]
                       ELSE [name |-> Quote(fields[1]) \o OptionalSuffix(fields), err |-> ""])))

\* ------------------------------------------------------- declaration index

builtin == {"bool", "byte", "complex128", "complex64", "error", "float32",
            "float64", "int", "int16", "int32", "int64", "int8", "rune",
            "string", "uint", "uint16", "uint32", "uint64", "uint8", "uintptr"}

\* The files of an *ast.Package, which is named by the path it was parsed from.
PackageFiles(path) == IF path \in DOMAIN Source THEN Source[path].Files ELSE {}

\* The *ast.Object a name denotes in the scope of file f.
ObjectOf(o) ==
  LET f == CHOOSE f \in PackageFiles(o.Path) : o.Name \in DOMAIN Files[f].Objects
  IN Files[f].Objects[o.Name]

\* A lookup that takes every unknown name for a built-in one.
findObjectLenient(name, path) ==
  LET fs == {f \in PackageFiles(path) : name \in DOMAIN Files[f].Objects}
  IN IF fs # {}
     THEN [o |-> [Path |-> path, Name |-> name],
           c |-> [Path |-> path, File |-> CHOOSE f \in fs : TRUE],
           err |-> <<>>]
     ELSE [o |-> NilObj, c |-> NilCtx, err |-> <<>>]

\* A lookup that tests the built-in names before it searches the files.
findObjectBuiltinFirst(name, path) ==
  LET fs == {f \in PackageFiles(path) : name \in DOMAIN Files[f].Objects}
  IN IF Len(name) = 1 /\ name[1] \in builtin
     THEN [o |-> NilObj, c |-> NilCtx, err |-> <<>>]
     ELSE IF fs # {}
     THEN [o |-> [Path |-> path, Name |-> name],
           c |-> [Path |-> path, File |-> CHOOSE f \in fs : TRUE],
           err |-> <<>>]
     ELSE [o |-> NilObj, c |-> NilCtx,
           err |-> <<"identifier ">> \o name \o <<" not found in package ">> \o path]

\* findObject: the object of name in the files of the package, with the context
\* of the file declaring it; nil without an error for a built-in name; an error
\* otherwise.
findObject(name, path) ==
  LET fs == {f \in PackageFiles(path) : name \in DOMAIN Files[f].Objects}
  IN IF fs # {}
     THEN [o |-> [Path |-> path, Name |-> name],
           c |-> [Path |-> path, File |-> CHOOSE f \in fs : TRUE],
           err |-> <<>>]
     ELSE IF Len(name) = 1 /\ name[1] \in builtin
     THEN [o |-> NilObj, c |-> NilCtx, err |-> <<>>]
     ELSE [o |-> NilObj, c |-> NilCtx,
           err |-> <<"identifier ">> \o name \o <<" not found in package ">> \o path]

\* A parsedPackage that parses the directory on every request.
parsedPackageReload(D, path) ==
  IF path \notin DOMAIN Source THEN [D |-> D, ok |-> FALSE]
  ELSE [D |-> [D EXCEPT !.packages = Put(@, path, [Path |-> path, Load |-> Len(D.loadLog) + 1]),
                        !.packageNames = Put(@, path, Source[path].Name),
                        !.loadLog = Append(@, path)],
        ok |-> TRUE]

\* parsedPackage: the package of path from the cache d.packages or, on the
\* first request, from build.Import and parser.ParseDir, which then fills the
\* cache and d.packageNames. The *ast.Package stored is the one that this
\* call of parser.ParseDir made: the model names it by the path and by the
\* number of the call.
parsedPackage(D, path) ==
  IF path \in DOMAIN D.packages THEN [D |-> D, ok |-> TRUE]
  ELSE IF path \notin DOMAIN Source THEN [D |-> D, ok |-> FALSE]
  ELSE [D |-> [D EXCEPT !.packages = Put(@, path, [Path |-> path, Load |-> Len(D.loadLog) + 1]),
                        !.packageNames = Put(@, path, Source[path].Name),
                        !.loadLog = Append(@, path)],
        ok |-> TRUE]

\* The path between the quotes of an import spec's Path.Value.
ImportPath(imp) == SubSeq(imp.Path, 2, Len(imp.Path) - 1)

\* The name of the package that an unnamed import of path binds, with
\* d.packageNames filled by build.Import on the first request; ok is false when
\* build.Import fails.
PackageName(D, path) ==
  IF Get(D.packageNames, path, <<>>) # <<>>
  THEN [D |-> D, s |-> D.packageNames[path], ok |-> TRUE]
  ELSE IF path \notin DOMAIN Source THEN [D |-> D, s |-> <<>>, ok |-> FALSE]
  ELSE [D |-> [D EXCEPT !.packageNames = Put(@, path, Source[path].Name)],
        s |-> Source[path].Name, ok |-> TRUE]

RECURSIVE findImportIdent(_, _, _)
\* findImportIdent: the path that the import specs imps bind to name.
findImportIdent(D, imps, name) ==
  IF imps = <<>> THEN [D |-> D, path |-> <<>>, ok |-> FALSE]
  ELSE IF Head(imps).Name # <<>>
  THEN IF Head(imps).Name = name THEN [D |-> D, path |-> ImportPath(Head(imps)), ok |-> TRUE]
       ELSE findImportIdent(D, Tail(imps), name)
  ELSE With(PackageName(D, ImportPath(Head(imps))), LAMBDA n :
         IF ~n.ok THEN [D |-> D, path |-> <<>>, ok |-> FALSE]
         ELSE IF n.s = name THEN [D |-> n.D, path |-> ImportPath(Head(imps)), ok |-> TRUE]
         ELSE findImportIdent(n.D, Tail(imps), name))

\* ------------------------------------------------------------ type renderer

\* A line written to os.Stderr.
Diagnose(D, msg) == [D EXCEPT !.stderr = Append(@, msg)]

\* i := len(d.links[s]) + 1
NextNumber(m) == Cardinality(DOMAIN m) + 1

\* The numbering of renderLater: expression t gets the next number under the
\* base anchor s in d.links, and the anchor is s-number.
NewAnchor(D, s, t) ==
  With(Get(D.links, s, EmptyMap), LAMBDA m :
    [links |-> Put(D.links, s, Put(m, t.id, NextNumber(m))),
     id |-> s \o <<"-">> \o Itoa(NextNumber(m))])

\* A rendered map that never remembers a declaration.
RenderedNever(D, key) == <<>>

\* s := d.rendered[renderedElem{name, o}]
Rendered(D, key) == Get(D.rendered, key, <<>>)

\* A queue that takes a new item at its front.
EnqueueFront(D, name, t, c, a, o) ==
  [D EXCEPT !.links = a.links,
            !.renderQueue = <<[Name |-> name, Type |-> t, c |-> c, id |-> a.id]>> \o @,
            !.enqLog = Append(@, [id |-> a.id, expr |-> t.id, obj |-> o])]

\* The queueElem appended to d.renderQueue, with its record in the history.
Enqueue(D, name, t, c, a, o) ==
  [D EXCEPT !.links = a.links,
            !.renderQueue = Append(@, [Name |-> name, Type |-> t, c |-> c, id |-> a.id]),
            !.enqLog = Append(@, [id |-> a.id, expr |-> t.id, obj |-> o])]

\* The base anchor of an anonymous type: "type-" and the name with its spaces
\* replaced.
AnonBase(name) == <<"type-">> \o ReplaceSpaces(name)

\* renderLater: the anchor of the type to link to, which it appends to the
\* render queue unless it is a named declaration queued before; the empty
\* string for a name that is a built-in, is not found or is not a type.
\* refLog records every anchor returned for a named declaration.
renderLater(D, name, t, c) ==
  IF t.k # "nil"
  THEN With(NewAnchor(D, AnonBase(name), t), LAMBDA a :
         [D |-> Enqueue(D, name, t, c, a, NilObj), ID |-> a.id])
  ELSE With(findObject(name, c.Path), LAMBDA r :
         IF r.err # <<>> THEN [D |-> Diagnose(D, r.err), ID |-> <<>>]
         ELSE IF r.o = NilObj THEN [D |-> D, ID |-> <<>>]
         ELSE With(Rendered(D, [Name |-> name, Obj |-> r.o]), LAMBDA old :
           IF old # <<>>
           THEN [D |-> [D EXCEPT !.refLog = Append(@, [obj |-> r.o, id |-> old])], ID |-> old]
           ELSE IF ObjectOf(r.o).Kind = "type"
           THEN With(NewAnchor(D, <<"type-">> \o name, ObjectOf(r.o).Type), LAMBDA a :
                  [D |-> [Enqueue(D, name, ObjectOf(r.o).Type, r.c, a, r.o)
                            EXCEPT !.rendered = Put(@, [Name |-> name, Obj |-> r.o], a.id),
                                   !.refLog = Append(@, [obj |-> r.o, id |-> a.id])],
                   ID |-> a.id])
           ELSE [D |-> D, ID |-> <<>>]))

\* The anchor element that typeLink prints around a label.
Anchor(ID, label) ==
  <<"<a href=", Q, "#">> \o EscapeString(ID) \o <<Q, ">">> \o label \o <<"</a>">>

\* fmt.Sprint of an expression node that typeLink does not know.
Sprint(t) == <<"&{", t.k, "}">>

MapKeyError == <<"only maps with string keys are supported">>

\* A key test that accepts every key type.
StringKeyAny(t) == TRUE

\* ident, ok := t.Key.(*ast.Ident); ok && ident.Name == "string"
StringKey(t) == t.Key.k = "ident" /\ t.Key.Name = <<"string">>

\* The name that typeLink gives the element type of an array or a map.
ElementName(name) ==
  IF HasSuffix(name, <<"-element">>) THEN name ELSE name \o <<"-element">>

\* The result of typeLink: the state, the cell text and whether the call
\* panicked.
Cell(D, s) == [D |-> D, s |-> s, panic |-> FALSE]

\* The link to a named declaration, or the plain text when renderLater
\* returns no anchor.
LinkOr(r, label, plain) ==
  IF r.ID # <<>> THEN Cell(r.D, Anchor(r.ID, EscapeString(label))) ELSE Cell(r.D, plain)

\* The *ast.SelectorExpr case of typeLink, with the import found (fi) and the
\* package parsed (pp).  renderLater reads c.Package of the nil context that
\* findObject returns for a built-in name: a nil dereference.
selectorLink(t, plain, fi, pp) ==
  IF ~fi.ok THEN Cell(Diagnose(fi.D, <<"package not found">>), plain)
  ELSE IF ~pp.ok THEN Cell(Diagnose(pp.D, <<"cannot import">>), plain)
  ELSE With(findObject(t.Sel, fi.path), LAMBDA fo :
         IF fo.err # <<>> THEN Cell(Diagnose(pp.D, fo.err), plain)
         ELSE IF fo.c = NilCtx THEN [Cell(pp.D, plain) EXCEPT !.panic = TRUE]
         ELSE LinkOr(renderLater(pp.D, t.Sel, Nil, fo.c), t.Sel, plain))

RECURSIVE typeLink(_, _, _, _, _)
\* typeLink: the text of a type cell, with a link for every type that gets a
\* table of its own (which renderLater queues).
typeLink(D, t, c, name, suffix) ==
  CASE t.k = "array" ->
         With(typeLink(D, t.Elt, c, ElementName(name), <<"s">>), LAMBDA r :
           [r EXCEPT !.s = <<"array">> \o suffix \o <<" of ">> \o @])
    [] t.k = "map" ->
         IF ~StringKey(t) THEN Cell(D, <<"(error: ">> \o MapKeyError \o <<")">>)
         ELSE With(typeLink(D, t.Value, c, ElementName(name), <<"s">>), LAMBDA r :
                [r EXCEPT !.s = <<"object">> \o suffix \o <<" of ">> \o @])
    [] t.k = "ident" ->
         LinkOr(renderLater(D, t.Name, Nil, c), t.Name, EscapeString(t.Name))
    [] t.k = "struct" ->
         IF HasSuffix(name, <<"-element">>)
         THEN With(renderLater(D, name, t, c), LAMBDA r :
                Cell(r.D, Anchor(r.ID, EscapeString(name))))
         ELSE With(renderLater(D, <<"of", SP>> \o name, t, c), LAMBDA r :
                Cell(r.D, Anchor(r.ID, <<"type of ">> \o EscapeString(name))))
    [] t.k = "sel" ->
         IF t.X.k # "ident"
         THEN Cell(Diagnose(D, <<"expected identifier before '.'">>), EscapeString(Sprint(t)))
         ELSE With(findImportIdent(D, Files[c.File].Imports, t.X.Name), LAMBDA fi :
                With(parsedPackage(fi.D, fi.path), LAMBDA pp :
                  selectorLink(t, EscapeString(t.X.Name \o <<DOT>> \o t.Sel), fi, pp)))
    [] OTHER -> Cell(D, EscapeString(Sprint(t)))

\* The result of a rendering step: the state, the error returned (empty for
\* nil), how the call ended otherwise (by a run-time panic or by the exhaustion
\* of the stack) and the rows collected.
Res(D, err, crash) == [D |-> D, err |-> err, crash |-> crash, fields |-> <<>>]

\* A step that returns normally with rows.
Rows(D, fields) == [D |-> D, err |-> <<>>, crash |-> "", fields |-> fields]

\* Whether a step returned an error or did not return.
Failed(r) == r.err # <<>> \/ r.crash # ""

\* The field value that appendFields appends for a member.
Row(name, cell, f) ==
  [Name |-> EscapeString(name), Type |-> cell,
   Description |-> EscapeString(TrimSpace(f.Comment))]

RECURSIVE namesLoop(_, _, _, _, _)
\* The loop over f.Names of appendFields: one row per name that tagToName does
\* not suppress.
namesLoop(D, fields, f, names, c) ==
  IF names = <<>> THEN Rows(D, fields)
  ELSE With(tagToName(Head(names), f.Tag), LAMBDA n :
         IF n.err = "NotExported" THEN namesLoop(D, fields, f, Tail(names), c)
         ELSE IF n.err # "" THEN Res(D, <<n.err>>, "")
         ELSE With(typeLink(D, f.Type, c, n.name, <<>>), LAMBDA l :
                IF l.panic THEN Res(l.D, <<>>, "panic")
                ELSE namesLoop(l.D, Append(fields, Row(n.name, l.s, f)), f, Tail(names), c)))

\* A test that flattens no embedded member.
FlattensNever(o) == FALSE

\* Whether an embedded member whose name denotes object o is flattened: o is
\* a type declaration whose type is a struct.
Flattens(o) == ObjectOf(o).Kind = "type" /\ ObjectOf(o).Type.k = "struct"

RECURSIVE appendFields(_, _, _, _, _)
RECURSIVE fieldLoop(_, _, _, _, _)
\* The loop over t.Fields.List of appendFields: an embedded member (no Names)
\* is flattened when its type name denotes a struct declaration.
fieldLoop(D, fields, list, c, depth) ==
  IF list = <<>> THEN Rows(D, fields)
  ELSE IF Head(list).Names = <<>>
  THEN IF Head(list).Type.k # "ident" THEN Res(D, <<>>, "panic")
       ELSE With(findObject(Head(list).Type.Name, c.Path), LAMBDA r :
              IF r.err # <<>> THEN Res(D, r.err, "")
              ELSE IF r.o = NilObj THEN fieldLoop(D, fields, Tail(list), c, depth)
              ELSE IF ~Flattens(r.o) THEN fieldLoop(D, fields, Tail(list), c, depth)
              ELSE With(appendFields(D, fields, ObjectOf(r.o).Type, r.c, depth + 1), LAMBDA a :
                     IF Failed(a) THEN Res(a.D, a.err, a.crash)
                     ELSE fieldLoop(a.D, a.fields, Tail(list), c, depth)))
  ELSE With(namesLoop(D, fields, Head(list), Head(list).Names, c), LAMBDA n :
         IF Failed(n) THEN Res(n.D, n.err, n.crash)
         ELSE fieldLoop(n.D, n.fields, Tail(list), c, depth))

\* An appendFields that puts the rows of struct t before the rows it is given.
appendFieldsFront(D, fields, t, c, depth) ==
  IF depth > MaxStack THEN Res(D, <<>>, "overflow")
  ELSE With(fieldLoop(D, <<>>, t.List, c, depth), LAMBDA a :
         IF Failed(a) THEN a ELSE Rows(a.D, a.fields \o fields))

\* appendFields: fields extended by the rows of struct t; depth counts the
\* nested calls, which a cycle of embedded members never ends.
appendFields(D, fields, t, c, depth) ==
  IF depth > MaxStack THEN Res(D, <<>>, "overflow")
  ELSE fieldLoop(D, fields, t.List, c, depth)

\* What a rendering step writes to the buffer d.b; src notes, for a table or
\* a notice, the struct and the context they were rendered from.
Event(k, id, text, rows, src) ==
  [k |-> k, id |-> id, text |-> text, rows |-> rows, src |-> src]

NoSrc == [t |-> Nil, c |-> NilCtx]

\* The plural s of a struct that is the element of an array or a map.
Plural(prefix) == IF prefix # <<>> THEN <<"s">> ELSE <<>>

\* The table template executed on the rows.
Table(prefix, fields, src) ==
  Event("table", <<>>,
        <<"JSON ">> \o prefix \o <<"object">> \o Plural(prefix) \o <<" with the following fields:">>,
        fields, src)

\* The paragraph written for a struct without rows.
Notice(prefix, src) ==
  Event("notice", <<>>,
        <<"JSON ">> \o prefix \o <<"object">> \o Plural(prefix) \o <<" with no fields.">>,
        <<>>, src)

\* A test of the rows that always chooses the table.
HasRowsAlways(fields) == TRUE

\* if len(fields) > 0
HasRows(fields) == Len(fields) > 0

\* The *ast.StructType case of renderType1 once appendFields returned a.
renderStruct(a, src, prefix) ==
  IF Failed(a) THEN Res(a.D, a.err, a.crash)
  ELSE IF HasRows(a.fields)
  THEN Res([a.D EXCEPT !.b = Append(@, Table(prefix, a.fields, src))], <<>>, "")
  ELSE Res([a.D EXCEPT !.b = Append(@, Notice(prefix, src))], <<>>, "")

RECURSIVE renderType1(_, _, _, _)
\* renderType1: the table of a struct, or the notice for a struct without
\* rows, under the prefix that its enclosing arrays and maps make up.
renderType1(D, typ, c, prefix) ==
  CASE typ.k = "struct" -> renderStruct(appendFields(D, <<>>, typ, c, 1), [t |-> typ, c |-> c], prefix)
    [] typ.k = "map" ->
         IF ~StringKey(typ) THEN Res(D, MapKeyError, "")
         ELSE renderType1(D, typ.Value, c,
                IF prefix = <<>> THEN <<"object of ">> ELSE prefix \o <<" objects of ">>)
    [] typ.k = "array" ->
         renderType1(D, typ.Elt, c,
           IF prefix = <<>> THEN <<"array of ">> ELSE prefix \o <<" arrays of ">>)
    [] OTHER -> Res(D, <<>>, "")

\* renderType
renderType(D, q) == renderType1(D, q.Type, q.c, <<>>)

\* The package part and the identifier of a directive's name.
SplitName(name) ==
  With(LastIndexByte(name, DOT), LAMBDA i :
    IF i # 0 THEN [pkgName |-> SubSeq(name, 1, i - 1), name |-> SubSeq(name, i + 1, Len(name))]
    ELSE [pkgName |-> <<DOT>>, name |-> name])

\* A test that takes every object for a type declaration.
IsTypeSpecAlways(o) == TRUE

\* t, ok := o.Decl.(*ast.TypeSpec)
IsTypeSpec(o) == ObjectOf(o).Kind = "type"

\* renderTypeByName once the name is split (n) and its object looked up (r)
\* in the package at path.
renderFound(D, n, path, r) ==
  IF r.o = NilObj THEN Res(D, <<"Type ">> \o n.name \o <<" error: ">> \o r.err, "")
  ELSE IF ~IsTypeSpec(r.o)
  THEN Res(D, <<"Object named ">> \o n.name \o <<" is not a type">>, "")
  ELSE renderType1(D, ObjectOf(r.o).Type, r.c, <<>>)

\* A test that takes every name for a registered one.
UnregisteredNever(path) == FALSE

\* if path == ""
Unregistered(path) == path = <<>>

\* renderTypeByName: renders the declaration that a directive names.
renderTypeByName(D, name) ==
  With(SplitName(name), LAMBDA n :
    With(Get(D.imports, n.pkgName, <<>>), LAMBDA path :
      IF Unregistered(path)
      THEN Res(D, <<"name ">> \o n.pkgName \o <<" mast be imported to access ">> \o n.name, "")
      ELSE renderFound(D, n, path, findObject(n.name, path))))

\* ------------------------------------------------------- the run's state

VARIABLES
  imports,       \* d.imports: name in the template -> package path
  packages,      \* d.packages: package path -> package
  packageNames,  \* d.packageNames: package path -> package name
  b,             \* d.b: the buffer of the directive being evaluated
  rendered,      \* d.rendered: (name, object) -> anchor
  renderQueue,   \* d.renderQueue
  links,         \* d.links: base anchor -> (expression -> number)
  title,         \* d.title
  stderr,        \* the lines written to os.Stderr
  qi,            \* the index i of the loop of renderTypes (from 1)
  pc,            \* where the run is: idle (between directives), drain (in the
                 \* loop of renderTypes), failed, crashed, done
  err,           \* the error that ended the run
  tout,          \* the template's output: the markup of the directives so far
  w,             \* what WriteTo wrote
  ndir,          \* the directives evaluated
  enqLog,        \* history: every item ever appended to the render queue
  refLog,        \* history: every anchor returned for a named declaration
  loadLog,       \* history: every path that parser.ParseDir has parsed
  last           \* history: the step taken last and its argument

vars == <<imports, packages, packageNames, b, rendered, renderQueue, links, title,
          stderr, qi, pc, err, tout, w, ndir, enqLog, refLog, loadLog, last>>

\* The fields of the JSONDoc d that the rendering operators read and write.
DState ==
  [imports |-> imports, packages |-> packages, packageNames |-> packageNames, b |-> b,
   rendered |-> rendered, renderQueue |-> renderQueue, links |-> links, title |-> title,
   stderr |-> stderr, enqLog |-> enqLog, refLog |-> refLog,
   loadLog |-> loadLog]

\* The assignment of a state D to the fields of d.
Commit(D) ==
  /\ imports' = D.imports
  /\ packages' = D.packages
  /\ packageNames' = D.packageNames
  /\ b' = D.b
  /\ rendered' = D.rendered
  /\ renderQueue' = D.renderQueue
  /\ links' = D.links
  /\ title' = D.title
  /\ stderr' = D.stderr
  /\ enqLog' = D.enqLog
  /\ refLog' = D.refLog
  /\ loadLog' = D.loadLog

\* NewJSONDoc: empty maps, an empty queue, no title.
Init ==
  /\ imports = EmptyMap
  /\ packages = EmptyMap
  /\ packageNames = EmptyMap
  /\ b = <<>>
  /\ rendered = EmptyMap
  /\ renderQueue = <<>>
  /\ links = EmptyMap
  /\ title = <<>>
  /\ stderr = <<>>
  /\ qi = 1
  /\ pc = "idle"
  /\ err = <<>>
  /\ tout = <<>>
  /\ w = <<>>
  /\ ndir = 0
  /\ enqLog = <<>>
  /\ refLog = <<>>
  /\ loadLog = <<>>
  /\ last = [op |-> "new", arg |-> <<>>]

\* The arguments that the directives of a template are drawn from.
Titles == {<<"Doc">>, <<"A", "&", "B">>}
Aliases == {<<DOT>>, <<"p">>, <<"a", DOT, "p">>}
Paths == {<<"ex">>, <<"an">>, <<"bad">>}
LocalNames == {"S", "H", "E0", "HE", "T", "U", "V", "MI", "MQ", "MF", "MG", "ZF", "ZE", "fn", "O", "X", "XB",
               "G", "I", "R", "A1", "Nope", "int", "K", "LS", "EP", "EQ"}
InputNames ==
  {<<n>> : n \in LocalNames}
  \cup {<<"p", DOT, "Another">>, <<"p", DOT, "T">>, <<"a", DOT, "p", DOT, "T">>}
OutputNames == {<<"T">>, <<"U">>, <<"p", DOT, "Another">>, <<"a", DOT, "p", DOT, "T">>}

\* How a step that did not return normally leaves the run: a returned error
\* fails the template; the exhaustion of the stack ends the process; a panic
\* ends the process or, where the template package recovers the panics of the
\* functions it calls, fails the template.
Outcomes(r) ==
  IF r.crash = "overflow" THEN {"crashed"}
  ELSE IF r.crash = "panic" THEN {"crashed", "failed"}
  ELSE IF r.err # <<>> THEN {"failed"}
  ELSE {"drain"}

\* A title directive that fails when an earlier one has set the title.
SetTitleOnce(t) ==
  /\ pc = "idle"
  /\ ndir < MaxDirectives
  /\ ndir' = ndir + 1
  /\ last' = [op |-> "title", arg |-> t]
  /\ IF title # <<>>
     THEN /\ pc' = "failed"
          /\ err' = <<"title already set">>
          /\ UNCHANGED title
     ELSE /\ title' = t
          /\ UNCHANGED <<pc, err>>
  /\ UNCHANGED <<imports, packages, packageNames, b, rendered, renderQueue, links,
                 stderr, qi, tout, w, enqLog, refLog, loadLog>>

\* A title directive that keeps the title an earlier one has set.
SetTitleFirst(t) ==
  /\ pc = "idle"
  /\ ndir < MaxDirectives
  /\ title' = IF title = <<>> THEN t ELSE title
  /\ ndir' = ndir + 1
  /\ last' = [op |-> "title", arg |-> t]
  /\ UNCHANGED <<imports, packages, packageNames, b, rendered, renderQueue, links,
                 stderr, qi, pc, err, tout, w, enqLog, refLog, loadLog>>

\* setTitle
SetTitle(t) ==
  /\ pc = "idle"
  /\ ndir < MaxDirectives
  /\ title' = t
  /\ ndir' = ndir + 1
  /\ last' = [op |-> "title", arg |-> t]
  /\ UNCHANGED <<imports, packages, packageNames, b, rendered, renderQueue, links,
                 stderr, qi, pc, err, tout, w, enqLog, refLog, loadLog>>

\* A test that never finds a name imported.
AlreadyImportedNever(imps, name) == FALSE

\* if d.imports[name] != ""
AlreadyImported(imps, name) == Get(imps, name, <<>>) # <<>>

\* importPkg
ImportPkg(name, path) ==
  /\ pc = "idle"
  /\ ndir < MaxDirectives
  /\ ndir' = ndir + 1
  /\ last' = [op |-> "import", arg |-> <<name, path>>]
  /\ \E p \in {parsedPackage(DState, path)} :
        IF AlreadyImported(imports, name)
        THEN /\ pc' = "failed"
             /\ err' = <<"name ">> \o name \o <<" already imported">>
             /\ UNCHANGED <<imports, packages, packageNames, loadLog>>
        ELSE IF ~p.ok
        THEN /\ pc' = "failed"
             /\ err' = <<"cannot import ">> \o path
             /\ packages' = p.D.packages
             /\ packageNames' = p.D.packageNames
             /\ loadLog' = p.D.loadLog
             /\ UNCHANGED imports
        ELSE /\ imports' = Put(imports, name, path)
             /\ packages' = p.D.packages
             /\ packageNames' = p.D.packageNames
             /\ loadLog' = p.D.loadLog
             /\ UNCHANGED <<pc, err>>
  /\ UNCHANGED <<b, rendered, renderQueue, links, title, stderr, qi, tout, w, enqLog, refLog>>

\* d.b.Reset() and the heading that input and output print first.
Heading(kind, heading) ==
  <<Event("h3", <<>>, <<IF kind = "input" THEN "Input" ELSE "Output", " (">> \o markdownEscapeString(heading) \o <<")">>, <<>>, NoSrc),
    Event("div", <<>>, <<>>, <<>>, NoSrc)>>

\* A heading that carries the anchor as it is, without escaping it.
ItemHeadingRaw(q) == Event("h4", q.id, EscapeString(q.Name), <<>>, NoSrc)

\* The heading of queue item q that the loop of renderTypes prints.
ItemHeading(q) == Event("h4", EscapeString(q.id), EscapeString(q.Name), <<>>, NoSrc)

\* The start of renderTypes in input or output: the buffer is reset, the
\* heading written and the named declaration rendered.
Directive(kind, heading, name) ==
  /\ pc = "idle"
  /\ ndir < MaxDirectives
  /\ ndir' = ndir + 1
  /\ last' = [op |-> kind, arg |-> name]
  /\ \E r \in {renderTypeByName([DState EXCEPT !.b = Heading(kind, heading)], name)} :
        /\ Commit(r.D)
        /\ pc' \in Outcomes(r)
        /\ err' = r.err
  /\ qi' = 1
  /\ UNCHANGED <<tout, w>>

\* input
Input(name) == Directive("input", name, name)

\* output: the heading shows the identifier without its package part.
Output(name) ==
  Directive("output",
            IF LastIndexByte(name, DOT) # 0
            THEN SubSeq(name, LastIndexByte(name, DOT) + 1, Len(name)) ELSE name,
            name)

\* One turn of the loop of renderTypes: the heading and the type of item qi.
DrainStep ==
  /\ pc = "drain"
  /\ qi <= Len(renderQueue)
  /\ Len(renderQueue) <= MaxQueue
  /\ \E r \in {renderType([DState EXCEPT !.b = Append(@, ItemHeading(renderQueue[qi]))],
                             renderQueue[qi])} :
        /\ Commit(r.D)
        /\ pc' \in Outcomes(r)
        /\ err' = r.err
  /\ qi' = qi + 1
  /\ last' = [op |-> "drain", arg |-> renderQueue[qi]]
  /\ UNCHANGED <<tout, w, ndir>>

\* An end of the directive that leaves the queue as it is.
EndDirectiveKeep ==
  /\ pc = "drain"
  /\ qi > Len(renderQueue)
  /\ b' = Append(b, Event("/div", <<>>, <<>>, <<>>, NoSrc))
  /\ tout' = Append(tout, b')
  /\ pc' = "idle"
  /\ last' = [op |-> "end", arg |-> <<>>]
  /\ UNCHANGED <<imports, packages, packageNames, rendered, renderQueue, links, title,
                 stderr, qi, err, w, ndir, enqLog, refLog, loadLog>>

\* The end of the loop of renderTypes and of input or output: the queue is
\* emptied and the buffer returned to the template.
EndDirective ==
  /\ pc = "drain"
  /\ qi > Len(renderQueue)
  /\ renderQueue' = <<>>
  /\ b' = Append(b, Event("/div", <<>>, <<>>, <<>>, NoSrc))
  /\ tout' = Append(tout, b')
  /\ pc' = "idle"
  /\ last' = [op |-> "end", arg |-> <<>>]
  /\ UNCHANGED <<imports, packages, packageNames, rendered, links, title, stderr, qi,
                 err, w, ndir, enqLog, refLog, loadLog>>

\* An execution of the template that also counts as done after an error.
ExecutedOrFailed == pc \in {"idle", "failed"}

\* ExecuteTemplate returned nil: every directive of the template succeeded.
Executed == pc = "idle"

\* WriteTo after the template ran to its end: header, body, footer.
WriteTo ==
  /\ Executed
  /\ w' = <<[part |-> "header", text |-> EscapeString(title)],
            [part |-> "body", text |-> tout],
            [part |-> "footer", text |-> <<>>]>>
  /\ pc' = "done"
  /\ last' = [op |-> "write", arg |-> <<>>]
  /\ UNCHANGED <<imports, packages, packageNames, b, rendered, renderQueue, links, title,
                 stderr, qi, err, tout, ndir, enqLog, refLog, loadLog>>

Next ==
  \/ \E t \in Titles : SetTitle(t)
  \/ \E name \in Aliases, path \in Paths : ImportPkg(name, path)
  \/ \E name \in InputNames : Input(name)
  \/ \E name \in OutputNames : Output(name)
  \/ DrainStep
  \/ EndDirective
  \/ WriteTo

Spec == Init /\ [][Next]_vars

\* A sequential program takes its next step: the loop of renderTypes goes on.
FairSpec == Spec /\ WF_vars(DrainStep) /\ WF_vars(EndDirective)

\* ---------------------------------------------------------------------------
\* Properties
\* ---------------------------------------------------------------------------
\* The definitions below read the declarations and the history of a run
\* without going through the renderer: what a table should show is derived
\* again from the declared members.

\* The render items created by anonymous struct types.
AnonItems == {i \in DOMAIN enqLog : enqLog[i].obj = NilObj}

\* The render items created by named declarations.
NamedItems == {i \in DOMAIN enqLog : enqLog[i].obj # NilObj}

\* C1: every render item created during a run has an anchor identifier that
\* no other render item of the same run has, however often the same type
\* expression is reached.
C1_UniqueAnchors ==
  \A i, j \in DOMAIN enqLog : i # j => enqLog[i].id # enqLog[j].id

\* C2: a named declaration is appended to the render queue at most once in a
\* run, and every reference to it, in the same directive or a later one,
\* gets the anchor of that one item.
C2_NamedOnce ==
  /\ \A i, j \in NamedItems : enqLog[i].obj = enqLog[j].obj => i = j
  /\ \A k \in DOMAIN refLog :
       \E i \in NamedItems : /\ enqLog[i].obj = refLog[k].obj
                              /\ enqLog[i].id = refLog[k].id
                              /\ refLog[k].id # <<>>

\* The declaration S of package ex has been referenced from two finished
\* directives (twice in each, by the fields X and Y of T).
C2_Witness ==
  /\ pc = "idle"
  /\ Len(tout) = 2
  /\ Cardinality({k \in DOMAIN refLog :
                    refLog[k].obj = [Path |-> <<"ex">>, Name |-> <<"S">>]}) >= 4

\* C3: two anonymous struct types at two different places never share an
\* anchor: the items they create have distinct identifiers.
C3_DistinctSites ==
  \A i, j \in AnonItems :
    enqLog[i].expr # enqLog[j].expr => enqLog[i].id # enqLog[j].id

\* The declarations of the package of path, by name.
Declarations(path) == UNION {DOMAIN Files[f].Objects : f \in PackageFiles(path)}

\* name denotes a struct type declaration of the package of path.
DeclaredStruct(name, path) ==
  /\ name \in Declarations(path)
  /\ ObjectOf([Path |-> path, Name |-> name]).Kind = "type"
  /\ ObjectOf([Path |-> path, Name |-> name]).Type.k = "struct"

\* The json annotation of a member's tag; empty when there is none.
JsonAnnotation(tag) ==
  IF tag = <<>> THEN <<>> ELSE StructTagGet(Unquote(tag).s, <<"json">>)

\* The first comma-separated component of an annotation.
FirstComponent(s) == Split(s, ",")[1]

\* A named member is left out of the documentation: its name is not exported
\* or the first component of its json annotation is "-".
Suppressed(name, tag) ==
  \/ ~IsExported(name)
  \/ JsonAnnotation(tag) # <<>> /\ FirstComponent(JsonAnnotation(tag)) = <<"-">>

\* The names of member f that are shown, in order, each with the member.
ShownNames(f) ==
  SelectSeq([i \in DOMAIN f.Names |-> [name |-> f.Names[i], f |-> f]],
            LAMBDA m : ~Suppressed(m.name, f.Tag))

RECURSIVE Shown(_, _, _)
\* The members that the table of a struct shows, in declaration order: the
\* shown names of its named members, and the shown members of an embedded
\* struct declaration at the place of the embedding.
Shown(list, path, depth) ==
  IF list = <<>> \/ depth > MaxStack THEN <<>>
  ELSE IF Head(list).Names # <<>>
  THEN ShownNames(Head(list)) \o Shown(Tail(list), path, depth)
  ELSE IF Head(list).Type.k = "ident" /\ DeclaredStruct(Head(list).Type.Name, path)
  THEN Shown(ObjectOf([Path |-> path, Name |-> Head(list).Type.Name]).Type.List,
             path, depth + 1)
       \o Shown(Tail(list), path, depth)
  ELSE Shown(Tail(list), path, depth)

\* The shown members of the struct that a table or a notice was made from.
ShownOf(ev) == Shown(ev.src.t.List, ev.src.c.Path, 1)

\* The tables and notices written so far, in finished directives and in the
\* running one.
StructEvents ==
  {ev \in {b[i] : i \in DOMAIN b}
          \cup UNION {{tout[d][i] : i \in DOMAIN tout[d]} : d \in DOMAIN tout} :
     ev.k \in {"table", "notice"}}

\* The keys that a row of member m may show: its quoted bare name or the
\* quoted first component of its annotation, with or without the mark of an
\* optional member.
PossibleKeys(m) ==
  {EscapeString(Quote(n) \o sfx) :
     n \in {m.name, FirstComponent(JsonAnnotation(m.f.Tag))},
     sfx \in {<<>>, <<SP, "(optional)">>}}

\* C7: a named member is left out of the table if and only if its name is not
\* exported or the first component of its json annotation is "-"; every other
\* named member has exactly one row, in order.
C7_Suppression ==
  \A ev \in StructEvents :
    /\ Len(ev.rows) = Len(ShownOf(ev))
    /\ \A k \in DOMAIN ev.rows : ev.rows[k].Name \in PossibleKeys(ShownOf(ev)[k])

\* The table of S is written: four rows for its seven names, of which b and g
\* are not exported and C is annotated "-".
C7_Witness ==
  \E ev \in StructEvents :
    /\ ev.k = "table"
    /\ ev.src.t.id = 1
    /\ Len(ev.rows) = 4
    /\ \E f \in {ev.src.t.List[i] : i \in DOMAIN ev.src.t.List} :
         \E i \in DOMAIN f.Names : Suppressed(f.Names[i], f.Tag)

\* C8: a struct is rendered as a table exactly when it shows at least one
\* member, and as the notice of an object with no fields exactly when it shows
\* none; a table is never empty.
C8_TableOrNotice ==
  \A ev \in StructEvents :
    /\ ev.k = "table" <=> Len(ShownOf(ev)) > 0
    /\ ev.k = "table" => Len(ev.rows) > 0
    /\ ev.k = "notice" => ev.rows = <<>>

\* A notice is written for a struct that has members, none of them shown.
C8_Witness ==
  \E ev \in StructEvents :
    /\ ev.k = "notice"
    /\ ev.src.t.List # <<>>
    /\ ShownOf(ev) = <<>>

\* The position of the last dot of a directive's name; 0 without a dot.
LastDot(name) ==
  IF \E i \in DOMAIN name : name[i] = DOT
  THEN CHOOSE i \in DOMAIN name : name[i] = DOT /\ \A j \in DOMAIN name : j > i => name[j] # DOT
  ELSE 0

\* The namespace part of a directive's name: the text before its last dot, or
\* the alias "." of an unqualified name.
NamespacePart(name) ==
  IF LastDot(name) = 0 THEN <<DOT>> ELSE SubSeq(name, 1, LastDot(name) - 1)

\* The identifier after the namespace part.
IdentPart(name) == SubSeq(name, LastDot(name) + 1, Len(name))

\* The last step was an input or an output directive.
LastIsDirective == last.op \in {"input", "output"}

\* The path registered for the namespace part of the last directive.
RootPath == Get(imports, NamespacePart(last.arg), <<>>)

\* The last directive names a type declaration of a registered namespace.
RootIsType ==
  /\ LastIsDirective
  /\ RootPath # <<>>
  /\ IdentPart(last.arg) \in Declarations(RootPath)
  /\ ObjectOf([Path |-> RootPath, Name |-> IdentPart(last.arg)]).Kind = "type"

\* The type that the last step set out to render: the declaration a directive
\* names, or the queued item of a step of the worklist loop.
LastType ==
  IF last.op = "drain" THEN last.arg.Type
  ELSE IF RootIsType THEN ObjectOf([Path |-> RootPath, Name |-> IdentPart(last.arg)]).Type
  ELSE Nil

\* The package of LastType.
LastPath == IF last.op = "drain" THEN last.arg.c.Path ELSE RootPath

RECURSIVE BadMapInside(_)
\* Below any nesting of arrays and string-keyed maps, t is a map whose key is
\* not the string type.
BadMapInside(t) ==
  CASE t.k = "map" ->
         IF t.Key.k = "ident" /\ t.Key.Name = <<"string">> THEN BadMapInside(t.Value) ELSE TRUE
    [] t.k = "array" -> BadMapInside(t.Elt)
    [] OTHER -> FALSE

RECURSIVE CoreType(_)
\* The type below any nesting of arrays and string-keyed maps.
CoreType(t) ==
  CASE t.k = "map" /\ ~BadMapInside(t) -> CoreType(t.Value)
    [] t.k = "array" -> CoreType(t.Elt)
    [] OTHER -> t

\* The tables of the directives that finished.
FinishedTables ==
  {ev \in UNION {{tout[d][i] : i \in DOMAIN tout[d]} : d \in DOMAIN tout} : ev.k = "table"}

\* The text a cell ends with when its type holds a map with another key.
ErrorText == <<"(error: ">> \o MapKeyError \o <<")">>

Absent(name, path) ==
  name \notin Declarations(path) /\ ~(Len(name) = 1 /\ name[1] \in builtin)

\* Below arrays and string-keyed maps, t is an identifier that is absent.
AbsentIdent(t, path) == CoreType(t).k = "ident" /\ Absent(CoreType(t).Name, path)

RECURSIVE EmbedsAbsent(_, _, _)
\* Flattening the members of list meets an embedded member whose type name
\* is absent.
EmbedsAbsent(list, path, depth) ==
  /\ depth <= MaxStack
  /\ \E i \in DOMAIN list :
       /\ list[i].Names = <<>>
       /\ list[i].Type.k = "ident"
       /\ \/ Absent(list[i].Type.Name, path)
          \/ /\ DeclaredStruct(list[i].Type.Name, path)
             /\ EmbedsAbsent(ObjectOf([Path |-> path, Name |-> list[i].Type.Name]).Type.List,
                             path, depth + 1)

\* The message of findObject for a name it does not find.
NotFound(msg) == \E i \in DOMAIN msg : msg[i] = " not found in package "

\* The text of a cell has a link.
HasLink(cell) == \E i \in DOMAIN cell : cell[i] = "<a href="

\* C6 (as claimed): whenever rendering meets an identifier that is absent
\* and not built in, also as the type of a named field, the run is aborted:
\* no directive that finished has rendered a member of such a type.
C6_AlwaysAborts ==
  \A ev \in FinishedTables :
    \A k \in DOMAIN ShownOf(ev) : ~AbsentIdent(ShownOf(ev)[k].f.Type, ev.src.c.Path)

\* C6 (amended): an identifier that is absent and not built in fails the
\* directive when it is the root name of the directive or the type of an
\* embedded member; as the type of a named field, or of the elements of its
\* array or string-keyed map, it does not: the message goes to the standard
\* error stream, the cell shows the identifier without a link and rendering
\* goes on.
C6_RootFailsFieldShows ==
  /\ (LastIsDirective /\ RootPath # <<>> /\ Absent(IdentPart(last.arg), RootPath))
       => pc = "failed" /\ NotFound(err)
  /\ (CoreType(LastType).k = "struct" /\ EmbedsAbsent(CoreType(LastType).List, LastPath, 1))
       => pc = "failed" /\ NotFound(err)
  /\ \A ev \in StructEvents :
       \A k \in DOMAIN ev.rows \cap DOMAIN ShownOf(ev) :
         AbsentIdent(ShownOf(ev)[k].f.Type, ev.src.c.Path)
           => /\ ~HasLink(ev.rows[k].Type)
              /\ HasSuffix(ev.rows[k].Type, EscapeString(CoreType(ShownOf(ev)[k].f.Type).Name))
              /\ \E i \in DOMAIN stderr : NotFound(stderr[i])

\* A directive fails on an absent embedded member, after a directive
\* finished with an absent identifier as the type of a field.
C6_Witness ==
  /\ CoreType(LastType).k = "struct"
  /\ EmbedsAbsent(CoreType(LastType).List, LastPath, 1)
  /\ pc = "failed"
  /\ \E ev \in FinishedTables :
       \E k \in DOMAIN ShownOf(ev) : AbsentIdent(ShownOf(ev)[k].f.Type, ev.src.c.Path)

\* C9: an import whose alias an earlier import of the run registered fails
\* and leaves the registration as it was; an import that fails registers
\* nothing; an import of a namespace that cannot be loaded fails; any other
\* import registers its alias for its path.
C9_ImportOnce ==
  [][last'.op = "import" =>
       /\ last'.arg[1] \in DOMAIN imports => pc' = "failed" /\ imports' = imports
       /\ last'.arg[2] \notin DOMAIN Source => pc' = "failed"
       /\ pc' = "failed" => imports' = imports
       /\ pc' # "failed" => imports' = Put(imports, last'.arg[1], last'.arg[2])]_vars

\* An import has failed on an alias that is registered for another path.
C9_Witness ==
  /\ last.op = "import"
  /\ pc = "failed"
  /\ last.arg[1] \in DOMAIN imports
  /\ imports[last.arg[1]] # last.arg[2]
  /\ last.arg[2] \in DOMAIN Source

\* C10: an input or output directive whose namespace part no import has
\* registered fails with the error that the name must be imported, puts no
\* markup in the output and appends nothing to the render queue.
C10_Unregistered ==
  [][(last'.op \in {"input", "output"} /\ NamespacePart(last'.arg) \notin DOMAIN imports) =>
       /\ pc' = "failed"
       /\ err'[1] = "name "
       /\ tout' = tout
       /\ renderQueue' = renderQueue
       /\ enqLog' = enqLog]_vars

\* A directive with a qualified name has failed because its namespace part
\* is not registered, although another alias is.
C10_Witness ==
  /\ LastIsDirective
  /\ pc = "failed"
  /\ Len(NamespacePart(last.arg)) > 1
  /\ NamespacePart(last.arg) \notin DOMAIN imports
  /\ DOMAIN imports # {}

\* C5: every directive terminates: the worklist loop of renderTypes, once
\* entered, leaves the queue behind after finitely many steps, also for
\* declarations that refer to each other in a cycle.
C5_Terminates == (pc = "drain") ~> (pc # "drain")

\* A directive over U and V, which refer to each other through a field, an
\* array and a map, has ended with both of them queued once.
C5_Witness ==
  /\ last.op = "end"
  /\ pc = "idle"
  /\ \E i, j \in NamedItems :
       /\ enqLog[i].obj = [Path |-> <<"ex">>, Name |-> <<"U">>]
       /\ enqLog[j].obj = [Path |-> <<"ex">>, Name |-> <<"V">>]

\* The directive name denotes a type declaration of a registered namespace.
NamesType(name) ==
  /\ NamespacePart(name) \in DOMAIN imports
  /\ IdentPart(name) \in Declarations(imports[NamespacePart(name)])
  /\ ObjectOf([Path |-> imports[NamespacePart(name)], Name |-> IdentPart(name)]).Kind = "type"

\* C11: an input or output directive whose root name, in a registered
\* namespace, is not found (a built-in name included) or does not denote a
\* type returns an error and no markup, and leaves the dedup table, the link
\* table and the render queue as they were.
C11_RootNotAType ==
  [][(/\ last'.op \in {"input", "output"}
      /\ NamespacePart(last'.arg) \in DOMAIN imports
      /\ ~NamesType(last'.arg)) =>
       /\ pc' = "failed"
       /\ err' # <<>>
       /\ tout' = tout
       /\ rendered' = rendered
       /\ links' = links
       /\ renderQueue' = renderQueue]_vars

\* A directive has failed on a root that is declared but is no type, or is
\* built in, after an earlier directive filled the dedup table.
C11_Witness ==
  /\ LastIsDirective
  /\ pc = "failed"
  /\ RootPath # <<>>
  /\ ~RootIsType
  /\ ~Absent(IdentPart(last.arg), RootPath)
  /\ DOMAIN rendered # {}

\* The json annotation of member m lists the option omitempty after its
\* first component.
Optional(m) ==
  \E i \in 2..Len(Split(JsonAnnotation(m.f.Tag), ",")) :
    Split(JsonAnnotation(m.f.Tag), ",")[i] = <<"omitempty">>

\* The mark of an optional member stands in text s.
Marked(s) == \E i \in DOMAIN s : s[i] = "(optional)"

\* The json key of member m: its bare name without a json annotation, the
\* first component of the annotation otherwise.
JsonKey(m) ==
  IF JsonAnnotation(m.f.Tag) = <<>> THEN m.name ELSE FirstComponent(JsonAnnotation(m.f.Tag))

\* C12: the key in the row of an exported member is its quoted bare name
\* when it has no json annotation, and the quoted first component of the
\* annotation otherwise.
C12_KeyIsQuotedName ==
  \A ev \in StructEvents :
    \A k \in DOMAIN ev.rows \cap DOMAIN ShownOf(ev) :
      ev.rows[k].Name = EscapeString(Quote(JsonKey(ShownOf(ev)[k])))

\* C13: the row of a member with the option omitempty has the quoted first
\* component alone as its key and the mark "(optional)" at the end of its
\* description; the key and the anchors made from it carry no mark; a member
\* without the option carries no mark anywhere.
C13_MarkInDescription ==
  /\ \A ev \in StructEvents :
       \A k \in DOMAIN ev.rows \cap DOMAIN ShownOf(ev) :
         /\ ~Marked(ev.rows[k].Name)
         /\ Marked(ev.rows[k].Description) <=> Optional(ShownOf(ev)[k])
  /\ \A i \in DOMAIN enqLog : ~Marked(enqLog[i].id)

\* C14: a json annotation with an empty first component and options leaves
\* the quoted bare name of the member as its display name.
C14_EmptyComponentFallsBack ==
  \A ev \in StructEvents :
    \A k \in DOMAIN ev.rows \cap DOMAIN ShownOf(ev) :
      (JsonAnnotation(ShownOf(ev)[k].f.Tag) # <<>> /\ JsonKey(ShownOf(ev)[k]) = <<>>)
        => SubSeq(ev.rows[k].Name, 1, Len(EscapeString(Quote(ShownOf(ev)[k].name))))
             = EscapeString(Quote(ShownOf(ev)[k].name))

\* The file that declares name in the package of path.
DeclaringFile(name, path) ==
  CHOOSE f \in PackageFiles(path) : name \in DOMAIN Files[f].Objects

RECURSIVE ShownFile(_, _, _, _)
\* For each member of Shown(list, path, depth), the file of its declaration:
\* file for the members of list itself, the file of the embedded declaration
\* for the members it contributes.
ShownFile(list, path, file, depth) ==
  IF list = <<>> \/ depth > MaxStack THEN <<>>
  ELSE IF Head(list).Names # <<>>
  THEN [i \in DOMAIN ShownNames(Head(list)) |-> file] \o ShownFile(Tail(list), path, file, depth)
  ELSE IF Head(list).Type.k = "ident" /\ DeclaredStruct(Head(list).Type.Name, path)
  THEN ShownFile(ObjectOf([Path |-> path, Name |-> Head(list).Type.Name]).Type.List,
                 path, DeclaringFile(Head(list).Type.Name, path), depth + 1)
       \o ShownFile(Tail(list), path, file, depth)
  ELSE ShownFile(Tail(list), path, file, depth)

\* The files of the shown members of an event's struct.
ShownFileOf(ev) == ShownFile(ev.src.t.List, ev.src.c.Path, ev.src.c.File, 1)

\* The import paths that the imports of file bind to alias: by the name of a
\* named import, by the package name of an unnamed one.
Bound(file, alias) ==
  {ImportPath(imp) : imp \in
     {x \in {Files[file].Imports[i] : i \in DOMAIN Files[file].Imports} :
        \/ x.Name = alias
        \/ /\ x.Name = <<>>
           /\ ImportPath(x) \in DOMAIN Source
           /\ Source[ImportPath(x)].Name = alias}}

\* t is a qualified reference alias.Name of file that leads nowhere: the
\* alias is not bound, or its namespace cannot be loaded, or Name is not
\* found in it.
BrokenRef(t, file) ==
  /\ t.k = "sel"
  /\ t.X.k = "ident"
  /\ \A p \in Bound(file, t.X.Name) : p \notin DOMAIN Source \/ t.Sel \notin Declarations(p)

\* No loadable package declares name.
DeclaredNowhere(name) == \A p \in DOMAIN Source : name \notin Declarations(p)

\* Nothing in the queue's history, the dedup table or the link table is
\* about name.
NoTrace(name) ==
  /\ \A i \in DOMAIN enqLog : enqLog[i].obj.Name # name
  /\ \A key \in DOMAIN rendered : key.Name # name
  /\ (<<"type-">> \o name) \notin DOMAIN links

\* The file of LastType.
LastFile ==
  IF last.op = "drain" THEN last.arg.c.File
  ELSE IF RootIsType THEN DeclaringFile(IdentPart(last.arg), RootPath)
  ELSE ""

\* The last step set out to render a struct that shows a member whose type
\* is a qualified reference that leads nowhere.
LastShowsBrokenRef ==
  /\ CoreType(LastType).k = "struct"
  /\ \E k \in DOMAIN Shown(CoreType(LastType).List, LastPath, 1) :
       BrokenRef(Shown(CoreType(LastType).List, LastPath, 1)[k].f.Type,
                 ShownFile(CoreType(LastType).List, LastPath, LastFile, 1)[k])

\* C15: a field whose type is a qualified reference that leads nowhere has
\* the plain text alias.Name as its cell, without a link; nothing is queued
\* for it and the dedup and link tables get no entry for it; the directive
\* goes on and the table is written with its other rows.
C15_BrokenReference ==
  /\ LastShowsBrokenRef => pc \notin {"failed", "crashed"}
  /\ \A ev \in StructEvents :
       \A k \in DOMAIN ShownOf(ev) :
         BrokenRef(ShownOf(ev)[k].f.Type, ShownFileOf(ev)[k]) =>
           /\ k \in DOMAIN ev.rows
           /\ Len(ev.rows) = Len(ShownOf(ev))
           /\ ev.rows[k].Type =
                EscapeString(ShownOf(ev)[k].f.Type.X.Name \o <<DOT>> \o ShownOf(ev)[k].f.Type.Sel)
           /\ ~HasLink(ev.rows[k].Type)
           /\ DeclaredNowhere(ShownOf(ev)[k].f.Type.Sel) => NoTrace(ShownOf(ev)[k].f.Type.Sel)

\* C16: when a directive fails, nothing at all is written to the output;
\* header, body and footer are written, in that order, only after every
\* directive succeeded.
C16_AllOrNothing ==
  /\ pc \in {"failed", "crashed"} => w = <<>>
  /\ w # <<>> =>
       /\ pc = "done"
       /\ err = <<>>
       /\ [i \in DOMAIN w |-> w[i].part] = <<"header", "body", "footer">>
       /\ w[2].text = tout

\* A directive has failed after others put markup into the template's
\* output, and nothing is written.
C16_Witness ==
  /\ pc = "failed"
  /\ LastIsDirective
  /\ Len(tout) >= 1
  /\ w = <<>>

\* The struct declarations of the loadable packages, by the identity of their
\* struct type.
NamedStructs ==
  {ObjectOf(o).Type.id :
     o \in {x \in UNION {{[Path |-> p, Name |-> n] : n \in Declarations(p)} : p \in DOMAIN Source} :
             ObjectOf(x).Kind = "type" /\ ObjectOf(x).Type.k = "struct"}}

\* The places of the body, directive by directive, where the table or the
\* notice of struct e stands.
TablesOf(e) ==
  {<<d, j>> \in UNION {{<<d, j>> : j \in DOMAIN tout[d]} : d \in DOMAIN tout} :
     tout[d][j].k \in {"table", "notice"} /\ tout[d][j].src.t.id = e}

\* The tables of struct e that stand under the heading of a queued item.
ItemTablesOf(e) == {x \in TablesOf(e) : x[2] > 1 /\ tout[x[1]][x[2] - 1].k = "h4"}

\* C17 (as claimed): the body of a run holds the table of a named
\* declaration at most once, also when the declaration is the root of a
\* directive and the type of a field, or the root of several directives.
C17_OneTablePerDeclaration ==
  \A e \in NamedStructs : Cardinality(TablesOf(e)) <= 1

\* C17 (amended): the body holds the table of a named declaration at most
\* once as a queued item, under the heading with its anchor; besides, every
\* directive writes the table of its root first, right after its own
\* heading, whether or not the run has that table already.
C17_OneItemTablePerDeclaration ==
  /\ \A e \in NamedStructs : Cardinality(ItemTablesOf(e)) <= 1
  /\ \A e \in NamedStructs : \A x \in TablesOf(e) \ ItemTablesOf(e) : x[2] = 3
  /\ \A d \in DOMAIN tout :
       (Len(tout[d]) >= 3 /\ tout[d][3].k \in {"table", "notice"}) =>
         tout[d][1].k = "h3" /\ tout[d][2].k = "div"

\* The table of one declaration stands in the body as the root of a
\* directive and again as a queued item, and another declaration is the
\* root of two directives.
C17_Witness ==
  /\ \E e \in NamedStructs :
       ItemTablesOf(e) # {} /\ TablesOf(e) \ ItemTablesOf(e) # {}
  /\ \E e \in NamedStructs : Cardinality(TablesOf(e) \ ItemTablesOf(e)) >= 2

\* t is an identifier whose name is on the list of built-in names.
BuiltinIdent(t) == t.k = "ident" /\ Len(t.Name) = 1 /\ t.Name[1] \in builtin

\* The package at path declares a type called name.
DeclaredType(name, path) ==
  /\ name \in Declarations(path)
  /\ ObjectOf([Path |-> path, Name |-> name]).Kind = "type"

\* The rows of the tables and notices written so far, each with the member it
\* shows and the package of its struct.
ShownRows ==
  UNION {{[cell |-> ev.rows[k].Type, t |-> ShownOf(ev)[k].f.Type, path |-> ev.src.c.Path] :
            k \in DOMAIN ev.rows \cap DOMAIN ShownOf(ev)} : ev \in StructEvents}

\* No message of the standard error stream is about name.
NoDiagnostic(name) ==
  \A i \in DOMAIN stderr : ~(Len(stderr[i]) >= 2 /\ stderr[i][2] = name[1])

\* C18 (as claimed): a field whose type is an identifier with a built-in
\* name is shown as plain text without a link and nothing is queued for it,
\* whatever the package declares.
C18_AllowlistFirst ==
  \A r \in ShownRows :
    BuiltinIdent(r.t) =>
      /\ r.cell = EscapeString(r.t.Name)
      /\ \A i \in DOMAIN enqLog : enqLog[i].obj # [Path |-> r.path, Name |-> r.t.Name]

\* C18 (amended): the declarations of the field's package are searched before
\* the list of built-in names. A field whose type is an identifier with a
\* built-in name that its package does not declare as a type is shown as
\* plain text without a link, without a diagnostic, and leaves no entry in
\* the queue, the dedup table or the link table; where the package declares
\* a type of that name the field links to that declaration, which is queued
\* and entered in the dedup table like any other named declaration.
C18_DeclarationsFirst ==
  \A r \in ShownRows :
    BuiltinIdent(r.t) =>
      IF DeclaredType(r.t.Name, r.path)
      THEN /\ HasLink(r.cell)
           /\ \E i \in DOMAIN enqLog : enqLog[i].obj = [Path |-> r.path, Name |-> r.t.Name]
           /\ \E key \in DOMAIN rendered :
                key.Obj = [Path |-> r.path, Name |-> r.t.Name]
      ELSE /\ r.cell = EscapeString(r.t.Name)
           /\ \A i \in DOMAIN enqLog : enqLog[i].obj # [Path |-> r.path, Name |-> r.t.Name]
           /\ \A key \in DOMAIN rendered :
                key.Obj # [Path |-> r.path, Name |-> r.t.Name]
           /\ DeclaredNowhere(r.t.Name) =>
                (<<"type-">> \o r.t.Name) \notin DOMAIN links /\ NoDiagnostic(r.t.Name)

\* A table shows a field of the type error in the package that declares a
\* struct called error, and a field of the type int that no package declares.
C18_Witness ==
  /\ \E r \in ShownRows :
       r.t = Ident("error") /\ DeclaredType(<<"error">>, r.path) /\ HasLink(r.cell)
  /\ \E r \in ShownRows : r.t = int /\ r.cell = <<"int">>
  /\ pc = "idle"

\* The text that a browser shows for markup: the character references of
\* html.EscapeString read back.
HtmlText(s) ==
  MapTokens(s, ("&#34;" :> <<Q>>) @@ ("&lt;" :> <<"<">>) @@ ("&gt;" :> <<">">>)
               @@ ("&amp;" :> <<"&">>) @@ ("&#39;" :> <<"'">>))

\* C19: a title directive never fails; the title of the page header is the
\* argument of the last title directive of the run, wherever it stands among
\* the other directives, and is empty when the run has none: the title is
\* empty at the start, a title directive replaces it by its argument and
\* leaves the run going, no other step changes it, and the header that
\* WriteTo writes reads as the title.
C19_LastTitleWins ==
  /\ title = <<>>
  /\ [][/\ last'.op = "title" =>
             title' = last'.arg /\ pc' = "idle" /\ err' = err /\ tout' = tout
        /\ last'.op # "title" => title' = title
        /\ last'.op = "write" =>
             /\ w'[1].part = "header"
             /\ w'[1].text = EscapeString(title)
             /\ HtmlText(w'[1].text) = title]_vars

\* The page is written with a title that needs escaping, after a directive
\* of another kind has finished.
C19_Witness ==
  /\ pc = "done"
  /\ title = <<"A", "&", "B">>
  /\ w[1].text = <<"A", "&amp;", "B">>
  /\ DOMAIN imports # {}

\* C20 (as claimed): a title directive of a run whose title an earlier
\* directive has set fails, as a second import of an alias does.
C20_TitleRejectsDuplicate ==
  [][(last'.op = "title" /\ title # <<>>) => pc' = "failed"]_vars

\* C20 (amended): of the two directives only the import fails on a duplicate
\* registration. A title directive of a run whose title is set succeeds and
\* replaces the title; an import of an alias that is registered fails with
\* the error that the name is already imported.
C20_OnlyImportRejectsDuplicate ==
  [][/\ (last'.op = "title" /\ title # <<>>) =>
          pc' = "idle" /\ err' = <<>> /\ title' = last'.arg
     /\ (last'.op = "import" /\ last'.arg[1] \in DOMAIN imports) =>
          /\ pc' = "failed"
          /\ err' = <<"name ">> \o last'.arg[1] \o <<" already imported">>]_vars

\* Two title directives have run and nothing else: the second one has
\* succeeded.
C20_Witness ==
  /\ last.op = "title"
  /\ ndir = 2
  /\ DOMAIN imports = {}
  /\ tout = <<>>
  /\ pc = "idle"
  /\ title = last.arg

\* The h4 headings of a buffer, in its order.
IsItemHeading(ev) == ev.k = "h4"
ItemHeadings(buf) == SelectSeq(buf, IsItemHeading)

\* The identifiers of the 'Type' sections of a buffer, in its order.
ItemIds(buf) == [i \in DOMAIN ItemHeadings(buf) |-> ItemHeadings(buf)[i].id]

\* The identifiers that the headings of the items of a queue carry.
QueueIds(q) == [i \in DOMAIN q |-> EscapeString(q[i].id)]

\* q is an initial part of r.
IsPrefix(q, r) == Len(q) <= Len(r) /\ SubSeq(r, 1, Len(q)) = q

\* C21: the queue is drained first in, first out, and may grow while it is
\* drained: while the loop runs the queue only grows at its end, the 'Type'
\* sections written so far are those of the first items of the queue in the
\* queue's order, and the directive ends only when every item of the queue,
\* also those that were appended while an item was rendered, has its section.
C21_Fifo ==
  [][/\ (pc = "drain" /\ pc' = "drain") => IsPrefix(renderQueue, renderQueue')
     /\ pc' = "drain" => ItemIds(b') = SubSeq(QueueIds(renderQueue'), 1, qi' - 1)
     /\ last'.op = "drain" => last'.arg = renderQueue[qi]
     /\ last'.op = "end" => ItemIds(b') = QueueIds(renderQueue)]_vars

\* A directive has ended whose markup has the section of V before the
\* section of U, which was queued while V was rendered.
C21_Witness ==
  /\ last.op = "end"
  /\ \E i, j \in DOMAIN tout[Len(tout)] :
       /\ i < j
       /\ tout[Len(tout)][i].k = "h4" /\ tout[Len(tout)][i].text = <<"V">>
       /\ tout[Len(tout)][j].k = "h4" /\ tout[Len(tout)][j].text = <<"U">>
       /\ \A n \in DOMAIN tout[Len(tout)] :
            (n < i /\ tout[Len(tout)][n].k = "table") =>
              \A r \in DOMAIN tout[Len(tout)][n].rows :
                 tout[Len(tout)][n].rows[r].Type # Anchor(<<"type-", "U", "-", "1">>, <<"U">>)

\* C22: in the markup of every directive that finished, the heading of each
\* drained item is followed at once by its body, a table or the notice of a
\* struct without fields; also for a named declaration that is a scalar.
C22_HeadingThenBody ==
  \A d \in DOMAIN tout :
    \A i \in DOMAIN tout[d] :
      tout[d][i].k = "h4" =>
        i < Len(tout[d]) /\ tout[d][i + 1].k \in {"table", "notice"}

\* The last step rendered, without an error, an array or a string-keyed map
\* whose innermost element is the name of a struct declaration.
LastIsContainerOfNamed ==
  /\ last.op \in {"input", "output", "drain"}
  /\ pc = "drain"
  /\ LastType.k \in {"array", "map"}
  /\ ~BadMapInside(LastType)
  /\ CoreType(LastType).k = "ident"
  /\ DeclaredStruct(CoreType(LastType).Name, LastPath)

\* C23: when the type rendered for a directive's root or for a queue item is
\* an array or a string-keyed map whose innermost element is the name of a
\* struct declaration, that declaration is queued and the step writes to the
\* markup.
C23_ElementEnqueued ==
  LastIsContainerOfNamed =>
    /\ \E i \in DOMAIN enqLog :
         enqLog[i].obj = [Path |-> LastPath, Name |-> CoreType(LastType).Name]
    /\ b[Len(b)].k \in {"table", "notice"}

\* Member f of a struct of the package at path is embedded and its type is a
\* built-in name that the package does not declare, or the name of a
\* declaration of the package that is not a struct type.
SkippedEmbed(f, path) ==
  /\ f.Names = <<>>
  /\ f.Type.k = "ident"
  /\ IF f.Type.Name \in Declarations(path)
     THEN ~DeclaredStruct(f.Type.Name, path)
     ELSE BuiltinIdent(f.Type)

\* The struct of a table or notice has an embedded member that is skipped.
HasSkippedEmbed(ev) ==
  \E i \in DOMAIN ev.src.t.List : SkippedEmbed(ev.src.t.List[i], ev.src.c.Path)

\* The last step set out to render a struct that embeds, directly or through
\* embedded structs, a name that is absent and not built in.
LastEmbedsAbsent ==
  CoreType(LastType).k = "struct" /\ EmbedsAbsent(CoreType(LastType).List, LastPath, 1)

\* C24 (as claimed): an embedded member whose type name cannot be resolved
\* raises no error.
C24_AlwaysSkipped == LastEmbedsAbsent => pc # "failed"

\* C24 (amended): an embedded member whose type is a built-in name, or the
\* name of a declaration that is not a struct type, is skipped: it gives no
\* rows and no error, and the other members of the struct are rendered in
\* full. An embedded member whose type name is absent from the package and
\* not built in is not skipped: it fails the directive with the error that
\* the identifier is not found, and no table is written for the struct.
C24_SkipOrFail ==
  /\ \A ev \in StructEvents :
       HasSkippedEmbed(ev) =>
         /\ Len(ev.rows) = Len(ShownOf(ev))
         /\ \A k \in DOMAIN ev.rows : ev.rows[k].Name \in PossibleKeys(ShownOf(ev)[k])
  /\ LastEmbedsAbsent =>
       /\ pc = "failed"
       /\ NotFound(err)
       /\ b[Len(b)].k \notin {"table", "notice"}
  /\ (pc = "failed" /\ NotFound(err)) =>
       \/ LastEmbedsAbsent
       \/ LastIsDirective /\ RootPath # <<>> /\ Absent(IdentPart(last.arg), RootPath)

\* A directive has failed on an embedded member whose name is absent, after
\* a directive finished with the table of K, which embeds a scalar type, the
\* built-in error and the struct G: the table has the rows of G and of the
\* named members of K.
C24_Witness ==
  /\ LastEmbedsAbsent
  /\ pc = "failed"
  /\ \E ev \in FinishedTables :
       /\ HasSkippedEmbed(ev)
       /\ Len(ev.rows) = 5
       /\ \E i, j \in DOMAIN ev.src.t.List :
            /\ ev.src.t.List[i].Names = <<>> /\ ev.src.t.List[i].Type = Ident("Sc")
            /\ ev.src.t.List[j].Names = <<>> /\ ev.src.t.List[j].Type = Ident("error")

\* The last step set out to render a struct with an embedded member that is
\* written as a pointer or as a qualified name.
LastEmbedsPointerOrQualified ==
  /\ CoreType(LastType).k = "struct"
  /\ \E i \in DOMAIN CoreType(LastType).List :
       /\ CoreType(LastType).List[i].Names = <<>>
       /\ CoreType(LastType).List[i].Type.k \in {"star", "sel"}

\* C25: appendFields returns normally for every form of an embedded member:
\* a step that renders a struct with an embedded pointer or an embedded
\* qualified name flattens or skips that member, so that the run goes on and
\* the struct gets its table or notice.
C25_EmbeddedFormsComplete ==
  LastEmbedsPointerOrQualified =>
    /\ pc \notin {"crashed", "failed"}
    /\ b[Len(b)].k \in {"table", "notice"}

\* The rows show the members ms, one row each in their order, by key and by
\* description.
RowsShow(rows, ms) ==
  /\ Len(rows) = Len(ms)
  /\ \A k \in DOMAIN rows :
       /\ rows[k].Name \in PossibleKeys(ms[k])
       /\ rows[k].Description = EscapeString(TrimSpace(ms[k].f.Comment))

\* Member i of the struct of ev is embedded and names a struct declaration.
EmbeddedStructAt(ev, i) ==
  /\ ev.src.t.List[i].Names = <<>>
  /\ ev.src.t.List[i].Type.k = "ident"
  /\ DeclaredStruct(ev.src.t.List[i].Type.Name, ev.src.c.Path)

\* The shown members of the struct of ev, put together around its embedded
\* member i: those of the members before it, those of the embedded struct,
\* those of the members after it.
AroundEmbedded(ev, i) ==
  Shown(SubSeq(ev.src.t.List, 1, i - 1), ev.src.c.Path, 1)
  \o Shown(ObjectOf([Path |-> ev.src.c.Path, Name |-> ev.src.t.List[i].Type.Name]).Type.List,
           ev.src.c.Path, 2)
  \o Shown(SubSeq(ev.src.t.List, i + 1, Len(ev.src.t.List)), ev.src.c.Path, 1)

\* C26: flattening keeps the order: for every embedded struct of a table's
\* struct, the rows of the table are the rows of the members declared before
\* it, then the rows of the embedded struct in its own order (flattened in
\* the same way), then the rows of the members declared after it.
C26_FlatteningKeepsOrder ==
  \A ev \in StructEvents :
    \A i \in DOMAIN ev.src.t.List :
      EmbeddedStructAt(ev, i) => RowsShow(ev.rows, AroundEmbedded(ev, i))

\* The table of R is written: R embeds I, which has the member A, embeds G
\* with the members C and Z and has the member W; R goes on with X and Y.
C26_Witness ==
  \E ev \in StructEvents :
    /\ ev.k = "table"
    /\ ev.src.t.id = 26
    /\ [k \in DOMAIN ev.rows |-> ev.rows[k].Name] =
         <<EscapeString(Quote(<<"A">>)), EscapeString(Quote(<<"C">>)),
           EscapeString(Quote(<<"Z">>)), EscapeString(Quote(<<"W">>)),
           EscapeString(Quote(<<"X">>)), EscapeString(Quote(<<"Y">>))>>

\* The struct declarations that the struct declaration name of the package
\* at path embeds directly.
EmbeddedIn(name, path) ==
  IF ~DeclaredStruct(name, path) THEN {}
  ELSE {f.Type.Name :
          f \in {x \in {ObjectOf([Path |-> path, Name |-> name]).Type.List[i] :
                          i \in DOMAIN ObjectOf([Path |-> path, Name |-> name]).Type.List} :
                   x.Names = <<>> /\ x.Type.k = "ident" /\ DeclaredStruct(x.Type.Name, path)}}

RECURSIVE EmbedClosure(_, _, _)
\* The declarations reached from those of set by at most n steps of embedding.
EmbedClosure(set, path, n) ==
  IF n = 0 THEN set
  ELSE EmbedClosure(set \cup UNION {EmbeddedIn(x, path) : x \in set}, path, n - 1)

\* The declarations that name embeds, directly or through embedded structs.
EmbeddedBelow(name, path) ==
  EmbedClosure(EmbeddedIn(name, path), path, Cardinality(Declarations(path)))

\* The last step is a directive whose root is a struct declaration that
\* embeds itself, directly or through other structs, or embeds such a struct.
LastRootOnEmbeddingCycle ==
  /\ RootIsType
  /\ \E m \in {IdentPart(last.arg)} \cup EmbeddedBelow(IdentPart(last.arg), RootPath) :
       m \in EmbeddedBelow(m, RootPath)

\* C27: rendering a struct whose embedding is circular terminates:
\* appendFields returns with rows or with an error, so that the directive
\* goes on or fails, and the process does not end abnormally.
C27_EmbeddingCycleReturns ==
  LastRootOnEmbeddingCycle => pc \in {"drain", "failed"}

\* C28: a namespace is loaded at most once in a run: a path that is stored
\* is never parsed again, whether it is requested by an import under another
\* alias or by a qualified field type; an entry of the cache is never
\* replaced or removed; the cache holds exactly the paths that were parsed,
\* each parsed once; a load that fails stores nothing.
C28_LoadedOnce ==
  [][/\ \A p \in DOMAIN packages : p \in DOMAIN packages' /\ packages'[p] = packages[p]
     /\ IsPrefix(loadLog, loadLog')
     /\ \A i \in DOMAIN loadLog' :
          i > Len(loadLog) => loadLog'[i] \notin DOMAIN packages /\ loadLog'[i] \in DOMAIN Source
     /\ \A i, j \in DOMAIN loadLog' : loadLog'[i] = loadLog'[j] => i = j
     /\ DOMAIN packages' = {loadLog'[i] : i \in DOMAIN loadLog'}
     /\ (last'.op = "import" /\ last'.arg[1] \notin DOMAIN imports
           /\ last'.arg[2] \notin DOMAIN Source) =>
          pc' = "failed" /\ packages' = packages /\ imports' = imports]_vars

\* An import of a path that cannot be loaded has failed, after two aliases
\* were registered for one path, which was parsed once.
C28_Witness ==
  /\ last.op = "import"
  /\ pc = "failed"
  /\ last.arg[1] \notin DOMAIN imports
  /\ last.arg[2] \notin DOMAIN Source
  /\ \E x, y \in DOMAIN imports : x # y /\ imports[x] = imports[y]
  /\ Len(loadLog) = 1

RECURSIVE UpToQuote(_)
\* The tokens of s before its first double quote.
UpToQuote(s) ==
  IF s = <<>> \/ Head(s) = Q THEN <<>> ELSE <<Head(s)>> \o UpToQuote(Tail(s))

\* The fragments that the links of a cell point at: what stands between the
\* "#" of an href and the quote that closes it.
LinkTargets(cell) ==
  {UpToQuote(SubSeq(cell, i + 3, Len(cell))) : i \in {j \in DOMAIN cell : cell[j] = "<a href="}}

\* The fragments that the links of the markup of directive d point at.
TargetsOf(d) ==
  UNION {UNION {LinkTargets(tout[d][i].rows[k].Type) : k \in DOMAIN tout[d][i].rows} :
           i \in DOMAIN tout[d]}

\* The identifiers of the 'Type' headings of the markup of directive d.
HeadingIdsOf(d) == {ItemIds(tout[d])[i] : i \in DOMAIN ItemIds(tout[d])}

\* C29: in the page of a run that succeeded, every link of a type cell
\* points at the identifier of a 'Type' heading of the page, in the markup
\* of the same directive or of an earlier one.
C29_LinkIntegrity ==
  pc = "done" =>
    \A d \in DOMAIN w[2].text :
      \A t \in TargetsOf(d) : \E e \in 1..d : t \in HeadingIdsOf(e)

\* A page is written in which a directive links to a heading that an
\* earlier directive emitted, and to a heading of its own.
C29_Witness ==
  /\ pc = "done"
  /\ w[2].text = tout
  /\ \E d \in DOMAIN tout :
       /\ \E t \in TargetsOf(d) :
            t \notin HeadingIdsOf(d) /\ \E e \in 1..(d - 1) : t \in HeadingIdsOf(e)
       /\ \E t \in TargetsOf(d) : t \in HeadingIdsOf(d)

RECURSIVE AllItemIds(_)
\* The identifiers of the 'Type' headings of the directives' markups, one
\* markup after the other.
AllItemIds(t) == IF t = <<>> THEN <<>> ELSE ItemIds(Head(t)) \o AllItemIds(Tail(t))

\* C30: between directives, before the first, after each one that succeeded
\* and when the page is written, the render queue is empty and the 'Type'
\* headings of the markups of the directives, taken in order, are exactly
\* the items ever queued in the order of their queuing: each item is emitted
\* once, in the markup of the directive that queued it, none is carried over
\* and none is dropped.
C30_DrainedPerDirective ==
  pc \in {"idle", "done"} =>
    /\ renderQueue = <<>>
    /\ AllItemIds(tout) = [i \in DOMAIN enqLog |-> EscapeString(enqLog[i].id)]
    /\ \A d \in DOMAIN tout : tout[d][Len(tout[d])].k = "/div"

\* Two directives have ended, each with items of its own in its markup.
C30_Witness ==
  /\ last.op = "end"
  /\ pc = "idle"
  /\ Len(tout) = 2
  /\ Len(ItemIds(tout[1])) >= 2
  /\ Len(ItemIds(tout[2])) >= 1
  /\ Len(enqLog) = Len(ItemIds(tout[1])) + Len(ItemIds(tout[2]))

====
